---- MODULE Spec2Model ----
(***************************************************************************)
(* A model of sasctl/tasks.py: register_model, publish_model,              *)
(* update_model_performance and their helpers.                             *)
(*                                                                         *)
(* Strings whose content the code inspects (lower(), "in", split, slices,  *)
(* regular expressions) are sequences of one-character strings.  Strings   *)
(* that are only compared or passed on are TLA+ strings.                   *)
(***************************************************************************)
EXTENDS Integers, Sequences, FiniteSets, TLC

(***************************************************************************)
(* Python string primitives                                                *)
(***************************************************************************)
UpperChars == <<"A","B","C","D","E","F","G","H","I","J","K","L","M",
                "N","O","P","Q","R","S","T","U","V","W","X","Y","Z">>

LowerChars == <<"a","b","c","d","e","f","g","h","i","j","k","l","m",
                "n","o","p","q","r","s","t","u","v","w","x","y","z">>

DigitChars == <<"0","1","2","3","4","5","6","7","8","9">>

\* str.lower() on one character
LowerChar(c) ==
    IF \E i \in 1..Len(UpperChars) : UpperChars[i] = c
    THEN LowerChars[CHOOSE i \in 1..Len(UpperChars) : UpperChars[i] = c]
    ELSE c

\* str.lower()
Lower(s) == [i \in 1..Len(s) |-> LowerChar(s[i])]

\* s[:n]
Take(s, n) == SubSeq(s, 1, IF Len(s) < n THEN Len(s) ELSE n)

\* s.startswith(sub, i) with i counted from 1
StartsAt(s, sub, i) ==
    /\ i >= 1
    /\ i + Len(sub) - 1 <= Len(s)
    /\ SubSeq(s, i, i + Len(sub) - 1) = sub

\* sub in s
Contains(sub, s) == \E i \in 1..(Len(s) + 1) : StartsAt(s, sub, i)

\* a string of n copies of the character c
Rep(c, n) == [i \in 1..n |-> c]

IsDigit(c) == \E i \in 1..Len(DigitChars) : DigitChars[i] = c

DigitVal(c) == (CHOOSE i \in 1..Len(DigitChars) : DigitChars[i] = c) - 1

\* int(s) for a string of decimal digits
RECURSIVE ToInt(_)
ToInt(s) ==
    IF Len(s) = 0 THEN 0
    ELSE 10 * ToInt(SubSeq(s, 1, Len(s) - 1)) + DigitVal(s[Len(s)])

Max(S) == CHOOSE x \in S : \A y \in S : y <= x

MinOf(S) == CHOOSE x \in S : \A y \in S : x <= y

\* getattr(caslib_info, 'TableInfo', None) is None: the caslib lists no table
NoTableInfo == {<<"<None>">>}

\* Python's None where a string is expected
NONE == <<"<None>">>

\* a key that a mapping does not hold
MISSING == <<"<missing>">>

\* mapping.get(key, default) for a field that is MISSING when the key is absent
Get(v, default) == IF v = MISSING THEN default ELSE v

(***************************************************************************)
(* String literals of the source                                           *)
(***************************************************************************)
S_empty == <<>>
S_prediction == <<"p","r","e","d","i","c","t","i","o","n">>
S_classification == <<"c","l","a","s","s","i","f","i","c","a","t","i","o","n">>
S_interval == <<"i","n","t","e","r","v","a","l">>
S_binary == <<"b","i","n","a","r","y">>
S_Prediction == <<"P","r","e","d","i","c","t","i","o","n">>
S_Classification == <<"C","l","a","s","s","i","f","i","c","a","t","i","o","n">>
S_clustering == <<"c","l","u","s","t","e","r","i","n","g">>
S_Interval == <<"I","n","t","e","r","v","a","l">>
S_Binary == <<"B","i","n","a","r","y">>
S_Nominal == <<"N","o","m","i","n","a","l">>
S_var == <<"P","_","y">>

(***************************************************************************)
(* Model descriptors: _property, _sklearn_to_dict and the target level     *)
(***************************************************************************)
_DESC_MAXLEN == 1024

_PROP_VALUE_MAXLEN == 512

_PROP_NAME_MAXLEN == 60

N_LogisticRegression == <<"L","o","g","i","s","t","i","c","R","e","g","r","e","s","s","i","o","n">>
N_LinearRegression == <<"L","i","n","e","a","r","R","e","g","r","e","s","s","i","o","n">>
N_SVC == <<"S","V","C">>
N_GradientBoostingClassifier == <<"G","r","a","d","i","e","n","t","B","o","o","s","t","i","n","g","C","l","a","s","s","i","f","i","e","r">>
N_GradientBoostingRegressor == <<"G","r","a","d","i","e","n","t","B","o","o","s","t","i","n","g","R","e","g","r","e","s","s","o","r">>
N_XGBClassifier == <<"X","G","B","C","l","a","s","s","i","f","i","e","r">>
N_XGBRegressor == <<"X","G","B","R","e","g","r","e","s","s","o","r">>
N_RandomForestClassifier == <<"R","a","n","d","o","m","F","o","r","e","s","t","C","l","a","s","s","i","f","i","e","r">>
N_DecisionTreeClassifier == <<"D","e","c","i","s","i","o","n","T","r","e","e","C","l","a","s","s","i","f","i","e","r">>
N_DecisionTreeRegressor == <<"D","e","c","i","s","i","o","n","T","r","e","e","R","e","g","r","e","s","s","o","r">>
N_classifier == <<"c","l","a","s","s","i","f","i","e","r">>
N_regressor == <<"r","e","g","r","e","s","s","o","r">>
A_Logistic_regression == <<"L","o","g","i","s","t","i","c"," ","r","e","g","r","e","s","s","i","o","n">>
A_Linear_regression == <<"L","i","n","e","a","r"," ","r","e","g","r","e","s","s","i","o","n">>
A_Support_vector_machine == <<"S","u","p","p","o","r","t"," ","v","e","c","t","o","r"," ","m","a","c","h","i","n","e">>
A_Gradient_boosting == <<"G","r","a","d","i","e","n","t"," ","b","o","o","s","t","i","n","g">>
A_Forest == <<"F","o","r","e","s","t">>
A_Decision_tree == <<"D","e","c","i","s","i","o","n"," ","t","r","e","e">>
N_SGDRegressor == <<"S","G","D","R","e","g","r","e","s","s","o","r">>
N_KMeans == <<"K","M","e","a","n","s">>
N_LogisticRegressionCV == <<"L","o","g","i","s","t","i","c","R","e","g","r","e","s","s","i","o","n","C","V">>
N_Ridge == <<"R","i","d","g","e">>
N_clusterer == <<"c","l","u","s","t","e","r","e","r">>
S_logistic == <<"l","o","g","i","s","t","i","c">>
S_regression == <<"r","e","g","r","e","s","s","i","o","n">>
A_logistic_regression == <<"l","o","g","i","s","t","i","c"," ","r","e","g","r","e","s","s","i","o","n">>

\* a variant of _property: the name is not cut
PropertyNameUncut(k, v) == [name |-> k, value |-> Take(v, _PROP_VALUE_MAXLEN)]

\* lines 50-51.  k and v are the str() of the key and of the value.
_property(k, v) ==
    [name |-> Take(k, _PROP_NAME_MAXLEN), value |-> Take(v, _PROP_VALUE_MAXLEN)]

\* lines 56-69: mappings.get(key, key)
Mappings(key) ==
    CASE key = N_LogisticRegression -> A_Logistic_regression
      [] key = N_LinearRegression -> A_Linear_regression
      [] key = N_SVC -> A_Support_vector_machine
      [] key = N_GradientBoostingClassifier -> A_Gradient_boosting
      [] key = N_GradientBoostingRegressor -> A_Gradient_boosting
      [] key = N_XGBClassifier -> A_Gradient_boosting
      [] key = N_XGBRegressor -> A_Gradient_boosting
      [] key = N_RandomForestClassifier -> A_Forest
      [] key = N_DecisionTreeClassifier -> A_Decision_tree
      [] key = N_DecisionTreeRegressor -> A_Decision_tree
      [] key = N_classifier -> S_classification
      [] key = N_regressor -> S_prediction
      [] OTHER -> key

\* lines 71-75: the class name of the final estimator of a pipeline, else of the
\* model itself
EstimatorName(model) ==
    IF model.final_estimator # MISSING THEN model.final_estimator ELSE model.class

\* a variant of SklearnTargetLevel: the estimator name is not looked at
SklearnTargetLevelByAlgorithm(estimator, algorithm, analytic_function) ==
    IF analytic_function = S_classification /\ Contains(S_logistic, Lower(algorithm))
    THEN S_Binary
    ELSE IF analytic_function = S_prediction /\ Contains(S_regression, Lower(algorithm))
    THEN S_Interval
    ELSE NONE

\* lines 83-90
SklearnTargetLevel(estimator, algorithm, analytic_function) ==
    IF analytic_function = S_classification /\ Contains(S_logistic, Lower(algorithm))
    THEN S_Binary
    ELSE IF /\ analytic_function = S_prediction
            /\ \/ Contains(N_regressor, Lower(estimator))
               \/ Contains(S_regression, Lower(algorithm))
    THEN S_Interval
    ELSE NONE

\* lines 54-104.  model.params is get_params().items() with keys and values as
\* their str(); model.str is str(model).
_sklearn_to_dict(model) ==
    LET estimator == EstimatorName(model)
        algorithm == Mappings(estimator)
        analytic_function == Mappings(model.estimator_type)
    IN  [description |-> Take(model.str, _DESC_MAXLEN),
         algorithm |-> algorithm,
         scoreCodeType |-> "ds2MultiType",
         trainCodeType |-> "Python",
         targetLevel |-> SklearnTargetLevel(estimator, algorithm, analytic_function),
         function |-> analytic_function,
         tool |-> "Python 3",
         properties |-> [i \in 1..Len(model.params) |->
                            _property(model.params[i][1], model.params[i][2])]]

\* a variant of ProjectTargetLevel: only an absent target level is inferred, a
\* target level of None is kept
ProjectTargetLevelUnlessPresent(model) ==
    LET function == Lower(Get(model.function, S_empty))
        algorithm == Lower(Get(model.algorithm, S_empty))
    IN  IF model.targetLevel # MISSING THEN model.targetLevel
        ELSE IF function = S_classification /\ Contains(S_logistic, algorithm)
        THEN S_Binary
        ELSE IF function = S_prediction /\ Contains(S_regression, algorithm)
        THEN S_Interval
        ELSE NONE

\* lines 128-131, 147-154: properties['targetLevel'] of the project to create.
\* The descriptor's own target level stands unless it is absent or None.
ProjectTargetLevel(model) ==
    LET function == Lower(Get(model.function, S_empty))
        algorithm == Lower(Get(model.algorithm, S_empty))
    IN  IF model.targetLevel \notin {MISSING, NONE} THEN model.targetLevel
        ELSE IF function = S_classification /\ Contains(S_logistic, algorithm)
        THEN S_Binary
        ELSE IF function = S_prediction /\ Contains(S_regression, algorithm)
        THEN S_Interval
        ELSE NONE

(***************************************************************************)
(* State                                                                   *)
(***************************************************************************)
VARIABLES
    \* ---- update_model_performance ----
    pf_pc,            \* position in update_model_performance
    environ,          \* os.environ['SSLREQCERT'], "unset" when the key is absent
    environ0,         \* history: environ when the call started
    orig_sslreqcert,  \* the local of line 853, "unbound" before it is assigned
    sess_verify,      \* current_session().verify
    pf_refresh,       \* the refresh argument
    pf_project,       \* the project of the model, as returned by get_project
    pf_model_found,   \* whether get_model finds the model
    pf_model_id,      \* model_obj.id
    pf_defs,          \* mm.list_performance_definitions(): their projectId, in order
    pf_prefix,        \* perf_def['dataPrefix']
    pf_score_exec,    \* perf_def.scoreExecutionRequired
    pf_columns,       \* data.columns
    pf_tables,        \* table names of the caslib, NoTableInfo before tableinfo
    next_seq,         \* the local next_seq, 0 before it is assigned
    pf_calls,         \* remote calls issued so far, in order
    pf_result,        \* how the call ended: "none" while running
    \* ---- publish_model ----
    pb_pc,            \* position in publish_model
    pb_replace,       \* the replace argument
    pb_code,          \* whether the code argument is given
    pb_dest_type,     \* destinationType of the destination
    pb_job_state,     \* job.state of the latest job, NONE before the first
    pb_first_state,   \* history: job.state of the first job
    pb_log,           \* the publishing log the service holds for the latest job
    pb_calls,         \* remote calls issued so far, in order
    pb_result,        \* how the call ended: a record, type "none" while running
    \* ---- _sklearn_to_dict and the target level of _create_project ----
    in_pc,            \* "model", then "dict", then "project"
    in_model,         \* the estimator handed to _sklearn_to_dict
    in_dict,          \* the result of _sklearn_to_dict, NONE before the call
    in_level,         \* the target level _create_project gives the project
    \* ---- register_model ----
    rg_pc,            \* position in register_model
    rg_variant,       \* what the model argument is: "astore", "estimator", "dict", "other"
    rg_force,         \* the force argument
    rg_version,       \* the version argument, NONE when omitted
    rg_name,          \* the local name
    rg_name0,         \* history: the name argument
    rg_project,       \* the project argument (a project name)
    rg_create_project, \* the local create_project
    rg_projects,      \* names of the projects of the repository when the call starts
    rg_models,        \* names of the models of the repository when the call starts
    rg_files,         \* the local files: the manifest
    rg_files0,        \* history: the files argument
    rg_estimator,     \* the estimator, when the model argument is one
    rg_model,         \* the local model while it is a descriptor
    rg_train,         \* whether train is given
    rg_valid,         \* whether valid is given
    rg_test,          \* whether test is given
    rg_data,          \* whether data is given
    rg_schema,        \* the dataset model_info.set_variables was given
    rg_record_packages, \* the record_packages argument
    rg_packages,      \* installed_packages()
    rg_warned,        \* whether the score-code warning was issued
    rg_calls,         \* remote calls issued so far, in order: [call, arg]
    rg_result         \* how the call ended: a record, type "none" while running

perfVars == <<pf_pc, environ, environ0, orig_sslreqcert, sess_verify, pf_refresh,
              pf_project, pf_model_found, pf_model_id, pf_defs, pf_prefix,
              pf_score_exec, pf_columns, pf_tables, next_seq, pf_calls, pf_result>>

pubVars == <<pb_pc, pb_replace, pb_code, pb_dest_type, pb_job_state, pb_first_state,
             pb_log, pb_calls, pb_result>>

inferVars == <<in_pc, in_model, in_dict, in_level>>

regVars == <<rg_pc, rg_variant, rg_force, rg_version, rg_name, rg_name0, rg_project,
             rg_create_project, rg_projects, rg_models, rg_files, rg_files0,
             rg_estimator, rg_model, rg_train, rg_valid, rg_test, rg_data, rg_schema,
             rg_record_packages, rg_packages, rg_warned, rg_calls, rg_result>>

vars == <<perfVars, pubVars, inferVars, regVars>>

(***************************************************************************)
(* register_model: helpers                                                 *)
(***************************************************************************)
S_eqeq == <<"=","=">>
S_env_ == <<"e","n","v","_">>
S_newline == <<"\n">>
S_new == <<"n","e","w">>
S_NEW == <<"N","E","W">>
S_latest == <<"l","a","t","e","s","t">>

\* the position of the first occurrence of sub in s
Find(sub, s) == CHOOSE i \in 1..(Len(s) + 1) :
                    /\ StartsAt(s, sub, i)
                    /\ \A j \in 1..(i - 1) : ~StartsAt(s, sub, j)

\* s.split(sep)
RECURSIVE Split(_, _)
Split(s, sep) ==
    IF ~Contains(sep, s) THEN <<s>>
    ELSE LET i == Find(sep, s)
         IN  <<SubSeq(s, 1, i - 1)>> \o Split(SubSeq(s, i + Len(sep), Len(s)), sep)

\* sep.join(parts)
RECURSIVE Join(_, _)
Join(parts, sep) ==
    IF Len(parts) = 0 THEN <<>>
    ELSE IF Len(parts) = 1 THEN parts[1]
    ELSE parts[1] \o sep \o Join(Tail(parts), sep)

\* any(f['name'] == name for f in files)
HasFile(files, name) == \E i \in 1..Len(files) : files[i].name = name

\* how far the over-long strings exceed the platform's limits
LongExtra == 1

\* installed packages: plain, editable (no '=='), two '==', and a long name
P_plain == <<"a","=","=","1",".","0">>
P_editable == <<"-","e"," ","g","i","t">>
P_double == <<"b","=","=","1","=","=","2">>
P_long == Rep("n", _PROP_NAME_MAXLEN - Len(S_env_) + LongExtra) \o S_eqeq \o <<"2">>

\* installed_packages() returned None
NoPackages == <<NONE>>

PackageLists == {NoPackages, <<P_plain>>, <<P_plain, P_editable>>, <<P_double, P_plain>>,
                 <<P_long, P_plain>>}

\* lines 511-514 raise ValueError: a package with '==' does not split in two
UnpackFails(packages) ==
    \E i \in 1..Len(packages) :
        Contains(S_eqeq, packages[i]) /\ Len(Split(packages[i], S_eqeq)) # 2

\* lines 511-514: one env_ property per package with '=='
EnvProperties(packages) ==
    LET with == SelectSeq(packages, LAMBDA q : Contains(S_eqeq, q))
    IN  [i \in 1..Len(with) |->
            _property(S_env_ \o Split(with[i], S_eqeq)[1], Split(with[i], S_eqeq)[2])]

\* line 517: the content of requirements.txt
RequirementsFile(packages) ==
    [name |-> "requirements.txt", role |-> "none", file |-> Join(packages, S_newline)]

\* the estimators registered
ShortEstimator ==
    [class |-> N_LogisticRegression, final_estimator |-> MISSING,
     estimator_type |-> N_classifier,
     params |-> << <<<<"C">>, <<"1",".","0">>>> >>,
     str |-> N_LogisticRegression]

LongEstimator ==
    [class |-> N_DecisionTreeRegressor, final_estimator |-> MISSING,
     estimator_type |-> N_regressor,
     params |-> << <<Rep("k", _PROP_NAME_MAXLEN + LongExtra),
                     Rep("v", _PROP_VALUE_MAXLEN + LongExtra)>> >>,
     str |-> Rep("d", _DESC_MAXLEN + LongExtra)]

Estimators == {ShortEstimator, LongEstimator}

\* ModelInfo(model).to_dict() with model_info.name = name (sasctl.utils.models):
\* the descriptor of section 4.4, which is that of _sklearn_to_dict, without
\* variables
ModelInfoToDict(model, name) ==
    LET d == _sklearn_to_dict(model)
    IN  [name |-> name, function |-> d.function, algorithm |-> d.algorithm,
         targetLevel |-> d.targetLevel, description |-> d.description,
         properties |-> d.properties, scoreCodeType |-> "ds2MultiType",
         inputVariables |-> MISSING, outputVariables |-> MISSING]

\* the plain mappings registered
MappingDescriptors ==
    [name : {"mapped"},
     function : {S_classification},
     algorithm : {A_logistic_regression},
     targetLevel : {MISSING, NONE, S_Nominal},
     description : {MISSING},
     properties : {<<>>},
     scoreCodeType : {"none"},
     inputVariables : {MISSING},
     outputVariables : {MISSING, <<"P_y">>}]
    \cup
    [name : {"mapped"},
     function : {S_Prediction, MISSING},
     algorithm : {A_Linear_regression, A_Decision_tree},
     targetLevel : {MISSING},
     description : {MISSING},
     properties : {<<>>},
     scoreCodeType : {"none"},
     inputVariables : {<<"x">>},
     outputVariables : {<<"P_y">>}]

\* ModelProperties.json, inputVar.json and outputVar.json of an ASTORE package
AstoreProperties ==
    [name : {"astore"},
     function : {S_classification, MISSING},
     algorithm : {A_Logistic_regression},
     targetLevel : {MISSING},
     description : {MISSING},
     properties : {<<>>},
     scoreCodeType : {"none"},
     inputVariables : {MISSING},
     outputVariables : {MISSING}]

\* the descriptor of a model argument that is no descriptor
NoDescriptor ==
    [name |-> "none", function |-> MISSING, algorithm |-> MISSING,
     targetLevel |-> MISSING, description |-> MISSING, properties |-> <<>>,
     scoreCodeType |-> "none", inputVariables |-> MISSING, outputVariables |-> MISSING]

\* the files argument
CallerFiles ==
    {<<>>,
     <<[name |-> "extra.txt", role |-> "none", file |-> <<"x">>]>>,
     <<[name |-> "requirements.txt", role |-> "none", file |-> <<"x">>]>>,
     <<[name |-> "dmcas_lift.json", role |-> "none", file |-> <<"x">>]>>}

\* a variant of NeedsProject: force is not looked at
NeedsProjectAlways(found, force) == ~found

\* line 382: create_project = bool(p is None and force is True)
NeedsProject(found, force) == ~found /\ force = TRUE

\* lines 136-138: the output variables _create_project works with
OutputVars(model, output_vars) ==
    IF output_vars # <<>> THEN output_vars ELSE Get(model.outputVariables, <<>>)

\* lines 135-145, 156-158: the properties create_project is called with; a
\* variable that is not set is "<none>"
ProjectProperties(model, output_vars) ==
    LET function == Lower(Get(model.function, S_empty))
        outs == OutputVars(model, output_vars)
    IN  [function |-> model.function,
         targetLevel |-> ProjectTargetLevel(model),
         predictionVariable |->
             IF outs # <<>> /\ function = S_prediction THEN outs[1] ELSE "<none>",
         eventProbabilityVariable |->
             IF outs # <<>> /\ function # S_prediction THEN outs[1] ELSE "<none>"]

\* what the repository may hold for a variable of the project it created: the
\* requested value, nothing (as Viya 3.4 does), or a value of its own
StoredValues(requested) == {requested, "<none>", "other"}

\* the projects mr.create_project may return, as far as the two variables go
CreatedProjects(props) ==
    [predictionVariable : StoredValues(props.predictionVariable),
     eventProbabilityVariable : StoredValues(props.eventProbabilityVariable)]

\* a variant of NeedsUpdate: only the prediction variable is compared
NeedsUpdatePredictionOnly(created, props) ==
    created.predictionVariable # props.predictionVariable

\* lines 163-167: needs_update
NeedsUpdate(created, props) ==
    \/ created.predictionVariable # props.predictionVariable
    \/ created.eventProbabilityVariable # props.eventProbabilityVariable

\* lines 164-166: the project after the loop has put the requested value in the
\* place of each value that differs
UpdatedProject(created, props) ==
    [predictionVariable |->
         IF created.predictionVariable # props.predictionVariable
         THEN props.predictionVariable ELSE created.predictionVariable,
     eventProbabilityVariable |->
         IF created.eventProbabilityVariable # props.eventProbabilityVariable
         THEN props.eventProbabilityVariable ELSE created.eventProbabilityVariable]

\* lines 156-172: the remote calls of _create_project; created is the project
\* mr.create_project returned
CreateProjectCalls(project_name, model, output_vars, created) ==
    LET props == ProjectProperties(model, output_vars)
    IN  <<[call |-> "create_project",
           arg |-> [name |-> project_name, props |-> props,
                    output_vars |-> OutputVars(model, output_vars)],
           response |-> created]>>
        \o IF NeedsUpdate(created, props)
           THEN <<[call |-> "update_project",
                   arg |-> [name |-> project_name,
                            props |-> UpdatedProject(created, props)]]>>
           ELSE <<>>

\* the names of the calls of a call log
CallNames(calls) == [i \in 1..Len(calls) |-> calls[i].call]

\* register_model has not been called
RegIdle ==
    /\ rg_pc = "idle"
    /\ rg_variant = "dict"
    /\ rg_force = FALSE
    /\ rg_version = NONE
    /\ rg_name = "mymodel"
    /\ rg_name0 = "mymodel"
    /\ rg_project = "proj"
    /\ rg_create_project = FALSE
    /\ rg_projects = {}
    /\ rg_models = {}
    /\ rg_files = <<>>
    /\ rg_files0 = <<>>
    /\ rg_estimator = ShortEstimator
    /\ rg_model = NoDescriptor
    /\ rg_train = FALSE
    /\ rg_valid = FALSE
    /\ rg_test = FALSE
    /\ rg_data = FALSE
    /\ rg_schema = "none"
    /\ rg_record_packages = FALSE
    /\ rg_packages = NoPackages
    /\ rg_warned = FALSE
    /\ rg_calls = <<>>
    /\ rg_result = [type |-> "none"]

(***************************************************************************)
(* update_model_performance                                                *)
(***************************************************************************)

\* project ids and the projectId of the performance definitions
S_p1 == <<"p","1">>
S_p12 == <<"p","1","2">>
S_p2 == <<"p","2">>

\* model ids and table prefixes
S_m1 == <<"m","1">>
S_m2 == <<"m","2">>
S_PF == <<"P","F">>

\* table names a caslib may hold
T_PF_3_Q1_m1 == <<"P","F","_","3","_","Q","1","_","m","1">>
T_PF_7_Q2_m1 == <<"P","F","_","7","_","Q","2","_","m","1">>
T_PF_12_Q3_m1 == <<"P","F","_","1","2","_","Q","3","_","m","1">>
T_pf_5_q1_M1 == <<"p","f","_","5","_","q","1","_","M","1">>
T_PF_9_Q1_m2 == <<"P","F","_","9","_","Q","1","_","m","2">>
T_XPF_20_Q1_m1 == <<"X","P","F","_","2","0","_","Q","1","_","m","1">>
T_PF_30_Q1_m12 == <<"P","F","_","3","0","_","Q","1","_","m","1","2">>
T_PF_x_Q1_m1 == <<"P","F","_","x","_","Q","1","_","m","1">>
T_PF_4_m1 == <<"P","F","_","4","_","m","1">>
T_HMEQ == <<"H","M","E","Q">>

TablePool == {T_PF_3_Q1_m1, T_PF_7_Q2_m1, T_PF_12_Q3_m1, T_pf_5_q1_M1, T_PF_9_Q1_m2,
              T_XPF_20_Q1_m1, T_PF_30_Q1_m12, T_PF_x_Q1_m1, T_PF_4_m1, T_HMEQ}

\* the largest number of tables a caslib listing holds
MaxTables == 2

TableListings == {S \in SUBSET TablePool : Cardinality(S) <= MaxTables}

EnvValues == {"unset", "no", "demand"}

\* the last position of the run of digits that starts at i (i - 1 when there is none)
RECURSIVE DigitsEnd(_, _)
DigitsEnd(s, i) ==
    IF i <= Len(s) /\ IsDigit(s[i]) THEN DigitsEnd(s, i + 1) ELSE i - 1

\* the tail '_.*_{id}' of the pattern matches from position k on
TailMatches(s, id, k) ==
    /\ k <= Len(s)
    /\ s[k] = "_"
    /\ \E j \in (k + 1)..Len(s) : s[j] = "_" /\ StartsAt(s, id, j + 1)

\* r'{prefix}_(\d+)_.*_{id}' matches s starting at position i (re.IGNORECASE)
MatchAt(s, prefix, id, i) ==
    LET ls == Lower(s)
        d == i + Len(prefix) + 1
        e == DigitsEnd(s, d)
    IN  /\ StartsAt(ls, Lower(prefix) \o <<"_">>, i)
        /\ e >= d
        /\ TailMatches(ls, Lower(id), e + 1)

\* Series.str.extract(regex, flags=re.IGNORECASE, expand=False) on one name:
\* group 1 of the leftmost match of re.search, NONE (NaN) without a match
Extract(s, prefix, id) ==
    IF \E i \in 1..Len(s) : MatchAt(s, prefix, id, i)
    THEN LET i == CHOOSE k \in 1..Len(s) :
                     /\ MatchAt(s, prefix, id, k)
                     /\ \A m \in 1..(k - 1) : ~MatchAt(s, prefix, id, m)
             d == i + Len(prefix) + 1
         IN  SubSeq(s, d, DigitsEnd(s, d))
    ELSE NONE

\* lines 870-881: the sequence number of the new table
NextSeq(tables, prefix, id) ==
    IF tables = NoTableInfo THEN 1
    ELSE LET seqs == {ToInt(Extract(t, prefix, id)) :
                         t \in {u \in tables : Extract(u, prefix, id) # NONE}}
         IN  IF seqs = {} THEN 1 ELSE Max(seqs) + 1

\* lines 812-816: the first definition whose projectId contains project.id
FindPerfDef(defs, pid) ==
    IF \E i \in 1..Len(defs) : Contains(pid, defs[i])
    THEN CHOOSE i \in 1..Len(defs) :
             /\ Contains(pid, defs[i])
             /\ \A j \in 1..(i - 1) : ~Contains(pid, defs[j])
    ELSE 0

PerfInputVariables == {"x"}
PerfOutputVariables == {"P_y"}

\* lines 770-846: the outcome of the precondition chain, "ok" when all pass.
\* str.lower() on None raises AttributeError.
PerfPrecondition(found, project, defs, columns, score_exec) ==
    LET function == Get(project.function, S_empty)
        level == Get(project.targetLevel, S_empty)
    IN  IF ~found THEN "ValueError: model not found"
        ELSE IF function = NONE THEN "AttributeError"
        ELSE IF Lower(function) \notin {S_prediction, S_classification}
             THEN "ValueError: function"
        ELSE IF level = NONE THEN "AttributeError"
        ELSE IF Lower(level) \notin {S_interval, S_binary}
             THEN "ValueError: target level"
        ELSE IF /\ Get(project.predictionVariable, S_empty) = S_empty
                /\ Lower(function) = S_prediction
             THEN "ValueError: prediction variable"
        ELSE IF /\ Get(project.eventProbabilityVariable, S_empty) = S_empty
                /\ Lower(function) = S_classification
             THEN "ValueError: event probability variable"
        ELSE IF FindPerfDef(defs, project.id) = 0
             THEN "ValueError: performance definition"
        ELSE IF PerfInputVariables \ columns # {}
             THEN "ValueError: missing columns"
        ELSE IF ~score_exec /\ PerfOutputVariables \ columns # {}
             THEN "ValueError: missing columns"
        ELSE "ok"

\* the remote calls the precondition chain issues before it ends
PerfPreconditionCalls(found, project) ==
    LET function == Get(project.function, S_empty)
        level == Get(project.targetLevel, S_empty)
        listed == /\ function # NONE
                  /\ Lower(function) \in {S_prediction, S_classification}
                  /\ level # NONE
                  /\ Lower(level) \in {S_interval, S_binary}
                  /\ ~(/\ Get(project.predictionVariable, S_empty) = S_empty
                       /\ Lower(function) = S_prediction)
                  /\ ~(/\ Get(project.eventProbabilityVariable, S_empty) = S_empty
                       /\ Lower(function) = S_classification)
    IN  IF ~found THEN <<"get_model">>
        ELSE IF listed THEN <<"get_model", "get_project", "list_performance_definitions">>
        ELSE <<"get_model", "get_project">>

\* a regression project and a classification project that pass every check
RegressionProject ==
    [id |-> S_p1, function |-> S_Prediction, targetLevel |-> S_Interval,
     predictionVariable |-> S_var, eventProbabilityVariable |-> MISSING]

ClassificationProject ==
    [id |-> S_p1, function |-> S_classification, targetLevel |-> S_binary,
     predictionVariable |-> S_empty, eventProbabilityVariable |-> S_var]

\* the projects get_project may return: the two above, and each with one field
\* changed
PerfProjects ==
    {RegressionProject, ClassificationProject}
    \cup {[RegressionProject EXCEPT !.function = f] : f \in {S_clustering, MISSING}}
    \cup {[q EXCEPT !.targetLevel = l] :
             q \in {RegressionProject, ClassificationProject},
             l \in {S_Nominal, MISSING, NONE}}
    \cup {[RegressionProject EXCEPT !.predictionVariable = v] : v \in {S_empty, MISSING}}
    \cup {[ClassificationProject EXCEPT !.eventProbabilityVariable = v] :
             v \in {S_empty, MISSING}}

PerfDefLists == {<<>>, <<S_p1>>, <<S_p2>>, <<S_p2, S_p12>>}

PerfInit ==
    /\ pf_pc = "validate"
    /\ environ \in EnvValues
    /\ environ0 = environ
    /\ orig_sslreqcert = "unbound"
    /\ sess_verify \in BOOLEAN
    /\ pf_refresh \in BOOLEAN
    /\ pf_project \in PerfProjects
    /\ pf_model_found \in BOOLEAN
    /\ (~pf_model_found => pf_project = RegressionProject)
    /\ pf_model_id \in {S_m1}
    /\ pf_defs \in PerfDefLists
    /\ pf_prefix \in {S_PF}
    /\ pf_score_exec \in BOOLEAN
    /\ pf_columns \in {{"x", "P_y"}, {"x"}, {"P_y"}}
    /\ pf_tables = NoTableInfo
    /\ next_seq = 0
    /\ pf_calls = <<>>
    /\ pf_result = "none"

\* lines 760-846: look the model, the project and the definition up and validate
PerfValidate ==
    /\ pf_pc = "validate"
    /\ UNCHANGED <<pubVars, inferVars, regVars>>
    /\ LET r == PerfPrecondition(pf_model_found, pf_project, pf_defs,
                                 pf_columns, pf_score_exec)
       IN  /\ pf_calls' = pf_calls \o PerfPreconditionCalls(pf_model_found, pf_project)
           /\ IF r = "ok"
              THEN pf_pc' = "override" /\ pf_result' = pf_result
              ELSE pf_pc' = "done" /\ pf_result' = r
    /\ UNCHANGED <<environ, environ0, orig_sslreqcert, sess_verify, pf_refresh,
                   pf_project, pf_model_found, pf_model_id, pf_defs, pf_prefix,
                   pf_score_exec, pf_columns, pf_tables, next_seq>>

\* lines 853-858: the value os.environ holds after the override
OverrideEnv(env, verify) == IF ~verify THEN "no" ELSE env

\* lines 848-858: save the setting and override it
PerfOverride ==
    /\ pf_pc = "override"
    /\ UNCHANGED <<pubVars, inferVars, regVars>>
    /\ orig_sslreqcert' = environ
    /\ environ' = OverrideEnv(environ, sess_verify)
    /\ pf_pc' = "connect"
    /\ UNCHANGED <<environ0, sess_verify, pf_refresh, pf_project, pf_model_found,
                   pf_model_id, pf_defs, pf_prefix, pf_score_exec, pf_columns,
                   pf_tables, next_seq, pf_calls, pf_result>>

\* lines 861-863: open the CAS session; swat raises when it cannot connect
PerfConnect ==
    /\ pf_pc = "connect"
    /\ UNCHANGED <<pubVars, inferVars, regVars>>
    /\ pf_calls' = Append(pf_calls, "swat.CAS")
    /\ \/ pf_pc' = "tableinfo" /\ pf_result' = pf_result
       \/ pf_pc' = "done" /\ pf_result' = "SWATError: connect"
    /\ UNCHANGED <<environ, environ0, orig_sslreqcert, sess_verify, pf_refresh,
                   pf_project, pf_model_found, pf_model_id, pf_defs, pf_prefix,
                   pf_score_exec, pf_columns, pf_tables, next_seq>>

\* lines 865-885: list the tables of the caslib and number the new table
PerfTableInfo ==
    /\ pf_pc = "tableinfo"
    /\ UNCHANGED <<pubVars, inferVars, regVars>>
    /\ pf_calls' = Append(pf_calls, "tableinfo")
    /\ \/ \E listing \in TableListings \cup {NoTableInfo} :
            /\ pf_tables' = listing
            /\ next_seq' = NextSeq(listing, pf_prefix, pf_model_id)
            /\ pf_pc' = "upload"
            /\ pf_result' = pf_result
       \/ /\ pf_pc' = "done"
          /\ pf_result' = "SWATError: tableinfo"
          /\ UNCHANGED <<pf_tables, next_seq>>
    /\ UNCHANGED <<environ, environ0, orig_sslreqcert, sess_verify, pf_refresh,
                   pf_project, pf_model_found, pf_model_id, pf_defs, pf_prefix,
                   pf_score_exec, pf_columns>>

\* lines 887-896: upload the table; severity 2 raises, a result without casTable
\* raises RuntimeError
PerfUpload ==
    /\ pf_pc = "upload"
    /\ UNCHANGED <<pubVars, inferVars, regVars>>
    /\ pf_calls' = Append(pf_calls, "upload")
    /\ \/ pf_pc' = "restore" /\ pf_result' = pf_result
       \/ pf_pc' = "done" /\ pf_result' = "SWATError: upload"
       \/ pf_pc' = "done" /\ pf_result' = "RuntimeError: upload"
    /\ UNCHANGED <<environ, environ0, orig_sslreqcert, sess_verify, pf_refresh,
                   pf_project, pf_model_found, pf_model_id, pf_defs, pf_prefix,
                   pf_score_exec, pf_columns, pf_tables, next_seq>>

\* lines 898-900: the value os.environ holds after the restore
RestoreEnv(env, orig) == IF orig # "unset" THEN orig ELSE env

\* lines 898-906: restore the setting, execute the definition, return the table
PerfRestore ==
    /\ pf_pc = "restore"
    /\ UNCHANGED <<pubVars, inferVars, regVars>>
    /\ environ' = RestoreEnv(environ, orig_sslreqcert)
    /\ pf_calls' = IF pf_refresh
                   THEN Append(pf_calls, "execute_performance_definition")
                   ELSE pf_calls
    /\ pf_pc' = "done"
    /\ pf_result' = "return"
    /\ UNCHANGED <<environ0, orig_sslreqcert, sess_verify, pf_refresh, pf_project,
                   pf_model_found, pf_model_id, pf_defs, pf_prefix, pf_score_exec,
                   pf_columns, pf_tables, next_seq>>

PerfNext ==
    \/ PerfValidate
    \/ PerfOverride
    \/ PerfConnect
    \/ PerfTableInfo
    \/ PerfUpload
    \/ PerfRestore

\* publish_model has not been called
PubIdle ==
    /\ pb_pc = "idle"
    /\ pb_replace = FALSE
    /\ pb_code = FALSE
    /\ pb_dest_type = "cas"
    /\ pb_job_state = NONE
    /\ pb_first_state = NONE
    /\ pb_log = <<>>
    /\ pb_calls = <<>>
    /\ pb_result = [type |-> "none"]

\* the shortest estimator: a logistic regression without parameters
PlainEstimator ==
    [class |-> N_LogisticRegression, final_estimator |-> MISSING,
     estimator_type |-> N_classifier, params |-> <<>>, str |-> N_LogisticRegression]

\* _sklearn_to_dict has not been called
InferIdle ==
    /\ in_pc = "idle"
    /\ in_model = PlainEstimator
    /\ in_dict = NONE
    /\ in_level = MISSING

InitPerf == PerfInit /\ PubIdle /\ InferIdle /\ RegIdle

SpecPerf == InitPerf /\ [][PerfNext]_vars

(***************************************************************************)
(* publish_model                                                           *)
(***************************************************************************)
S_completed == <<"c","o","m","p","l","e","t","e","d">>
S_Completed == <<"C","o","m","p","l","e","t","e","d">>
S_failed == <<"f","a","i","l","e","d">>
S_FAILED == <<"F","A","I","L","E","D">>
S_running == <<"r","u","n","n","i","n","g">>
S_Pending == <<"P","e","n","d","i","n","g">>

\* the states _monitor_job may leave a job in
JobStates == {S_completed, S_Completed, S_failed, S_FAILED, S_running, S_Pending}

DestinationTypes == {"microAnalyticService", "cas", "teradata"}

\* the characters of 'SUCCESS===' (line 707)
SuccessChars == {"S", "U", "C", "E", "="}

\* s.lstrip(chars): the leading characters that are in chars are removed
RECURSIVE LStrip(_, _)
LStrip(s, chars) ==
    IF Len(s) > 0 /\ s[1] \in chars THEN LStrip(Tail(s), chars) ELSE s

\* the texts of the two patterns of _parse_module_url
S_rel_href == <<"r","e","l","=","m","o","d","u","l","e",","," ","h","r","e","f","=">>
S_comma == <<",">>
S_Rel_URI == <<"R","e","l",":"," ","m","o","d","u","l","e"," ","U","R","I",":"," ">>
S_MediaType == <<" ","M","e","d","i","a","T","y","p","e">>

\* re.search(pre + '(.*?)' + post, msg): the leftmost place where pre is
\* followed, on the same line, by post; group 1 is the shortest text between
\* them.  <<>> without a match, else <<group 1>>.
SearchGroup(msg, pre, post) ==
    LET ends(i) == {j \in (i + Len(pre))..Len(msg) :
                       /\ StartsAt(msg, post, j)
                       /\ \A k \in (i + Len(pre))..(j - 1) : msg[k] # "\n"}
        starts == {i \in 1..Len(msg) : StartsAt(msg, pre, i) /\ ends(i) # {}}
    IN  IF starts = {} THEN <<>>
        ELSE LET i == MinOf(starts)
             IN  <<SubSeq(msg, i + Len(pre), MinOf(ends(i)) - 1)>>

\* module and job URLs
U_m1 == <<"/","m","1">>
U_m2 == <<"/","m","2">>
U_j1 == <<"/","j","1">>
S_module == <<"m","o","d","u","l","e">>
S_self == <<"s","e","l","f">>

\* the JSON documents a publishing log may hold: an object with a list of links
JsonDocuments ==
    {[links |-> <<>>],
     [links |-> <<[rel |-> S_self, href |-> U_j1]>>],
     [links |-> <<[rel |-> S_module, href |-> U_m1]>>],
     [links |-> <<[rel |-> S_self, href |-> U_j1], [rel |-> S_module, href |-> U_m2]>>]}

\* json.dumps of a link and of a document, without whitespace
DumpsLink(l) ==
    <<"{","\"","r","e","l","\"",":","\"">> \o l.rel \o <<"\"",",","\"","h","r","e","f","\"",":","\"">> \o l.href \o <<"\"","}">>

RECURSIVE DumpsLinks(_)
DumpsLinks(links) ==
    IF Len(links) = 0 THEN <<>>
    ELSE IF Len(links) = 1 THEN DumpsLink(links[1])
    ELSE DumpsLink(links[1]) \o S_comma \o DumpsLinks(Tail(links))

Dumps(d) == <<"{","\"","l","i","n","k","s","\"",":","[">> \o DumpsLinks(d.links) \o <<"]","}">>

\* json.loads(msg): <<document>>, or <<>> for json.JSONDecodeError; the texts
\* decoded are those of JsonDocuments
JsonLoads(msg) ==
    IF \E d \in JsonDocuments : Dumps(d) = msg
    THEN <<CHOOSE d \in JsonDocuments : Dumps(d) = msg>>
    ELSE <<>>

\* sasctl.core.get_link(details, rel): <<link>> for the link of that relation,
\* <<>> (None) when the document has none
get_link(details, rel) ==
    SelectSeq(details.links, LAMBDA l : l.rel = rel)

\* publishing logs: JSON with and without a module link, the Viya 3.5 and the
\* Viya 4.0 text, both texts in one log, the 3.5 text without its closing
\* comma, the 4.0 text broken by a newline, and logs without a URL
L_json_module == Dumps([links |-> <<[rel |-> S_module, href |-> U_m1]>>])
L_json_two == Dumps([links |-> <<[rel |-> S_self, href |-> U_j1],
                                 [rel |-> S_module, href |-> U_m2]>>])
L_json_self == Dumps([links |-> <<[rel |-> S_self, href |-> U_j1]>>])
L_json_empty == Dumps([links |-> <<>>])
L_35 == <<"S","U","C","C","E","S","S","=","=","=","r","e","l","=","m","o","d","u","l","e",","," ","h","r","e","f","=","/","m","1",","," ","x">>
L_40 == <<"S","U","C","C","E","S","S","=","=","=","R","e","l",":"," ","m","o","d","u","l","e"," ","U","R","I",":"," ","/","m","2"," ","M","e","d","i","a","T","y","p","e">>
L_both == <<"R","e","l",":"," ","m","o","d","u","l","e"," ","U","R","I",":"," ","/","m","2"," ","M","e","d","i","a","T","y","p","e"," ","r","e","l","=","m","o","d","u","l","e",","," ","h","r","e","f","=","/","m","1",",">>
L_35_open == <<"r","e","l","=","m","o","d","u","l","e",","," ","h","r","e","f","=","/","m","1">>
L_40_split == <<"R","e","l",":"," ","m","o","d","u","l","e"," ","U","R","I",":"," ","/","m","2","\n"," ","M","e","d","i","a","T","y","p","e">>
L_success == <<"S","U","C","C","E","S","S","=","=","=">>
L_text == <<"S","U","C","C","E","S","S","=","=","=","d","o","n","e">>

\* what the publishing log of a job holds
PublishLogs == {L_json_module, L_json_two, L_json_self, L_json_empty, L_35, L_40,
                L_both, L_35_open, L_40_split, L_success, L_text}

\* update_model_performance has not been called
PerfIdle ==
    /\ pf_pc = "idle"
    /\ environ = "unset"
    /\ environ0 = "unset"
    /\ orig_sslreqcert = "unbound"
    /\ sess_verify = TRUE
    /\ pf_refresh = TRUE
    /\ pf_project = RegressionProject
    /\ pf_model_found = TRUE
    /\ pf_model_id = S_m1
    /\ pf_defs = <<>>
    /\ pf_prefix = S_PF
    /\ pf_score_exec = FALSE
    /\ pf_columns = {}
    /\ pf_tables = NoTableInfo
    /\ next_seq = 0
    /\ pf_calls = <<>>
    /\ pf_result = "none"

PubInit ==
    /\ pb_pc = "submit"
    /\ pb_replace \in BOOLEAN
    /\ pb_code \in BOOLEAN
    /\ pb_dest_type \in DestinationTypes
    /\ pb_job_state = NONE
    /\ pb_first_state = NONE
    /\ pb_log = <<>>
    /\ pb_calls = <<>>
    /\ pb_result = [type |-> "none"]

\* lines 651-669: the remote calls of submit_request
SubmitCalls(code, dtype) ==
    IF ~code
    THEN <<"get_destination",
           IF dtype = "cas" THEN "mm.publish_model reload_model_table"
                            ELSE "mm.publish_model",
           "_monitor_job">>
    ELSE <<"mp.publish_model", "_monitor_job">>

\* lines 675-678: published, and not to MAS
CompletedElsewhere(state, dtype) ==
    Lower(state) = S_completed /\ dtype # "microAnalyticService"

\* a variant of Republish: the retry does not look at replace
RepublishIgnoringReplace(state, replace, dtype) ==
    Lower(state) = S_failed /\ dtype = "microAnalyticService"

\* lines 683-687: a failed MAS publish that is to be retried
Republish(state, replace, dtype) ==
    Lower(state) = S_failed /\ replace /\ dtype = "microAnalyticService"

\* a variant of FinalState: the check for an unknown state is missing
FinalStateNoUnknown(state) ==
    IF Lower(state) = S_failed THEN "failed" ELSE "completed"

\* lines 696-704: the final job state as publish_model classifies it
FinalState(state) ==
    IF Lower(state) = S_failed THEN "failed"
    ELSE IF Lower(state) # S_completed THEN "unknown"
    ELSE "completed"

\* lines 909-921: _parse_module_url.  The JSON link is tried first; only
\* json.JSONDecodeError leads to the two patterns, the Viya 3.5 one first.  On a
\* document without a module link get_link gives None and .get raises.
ParseModuleUrl(msg) ==
    LET details == JsonLoads(msg)
    IN  IF details # <<>>
        THEN LET module_url == get_link(details[1], S_module)
             IN  IF module_url = <<>> THEN [type |-> "AttributeError"]
                 ELSE [type |-> "url", url |-> module_url[1].href]
        ELSE LET first == SearchGroup(msg, S_rel_href, S_comma)
                 match == IF first = <<>>
                          THEN SearchGroup(msg, S_Rel_URI, S_MediaType)
                          ELSE first
             IN  IF match = <<>> THEN [type |-> "None"]
                 ELSE [type |-> "url", url |-> match[1]]

\* lines 651-672: submit the request and wait for the job
PubSubmit ==
    /\ pb_pc = "submit"
    /\ UNCHANGED <<perfVars, inferVars, regVars>>
    /\ \E st \in JobStates, log \in PublishLogs :
          /\ pb_job_state' = st
          /\ pb_first_state' = st
          /\ pb_log' = log
    /\ pb_calls' = pb_calls \o SubmitCalls(pb_code, pb_dest_type)
    /\ pb_pc' = "check"
    /\ UNCHANGED <<pb_replace, pb_code, pb_dest_type, pb_result>>

\* lines 674-693: return the job's link, or delete the module before a retry
PubCheck ==
    /\ pb_pc = "check"
    /\ UNCHANGED <<perfVars, inferVars, regVars>>
    /\ IF CompletedElsewhere(pb_job_state, pb_dest_type)
       THEN /\ pb_calls' = Append(pb_calls, "request_link self")
            /\ pb_result' = [type |-> "return", value |-> "self link"]
            /\ pb_pc' = "done"
       ELSE IF Republish(pb_job_state, pb_replace, pb_dest_type)
       THEN /\ pb_calls' = Append(pb_calls, "delete_module")
            /\ pb_result' = pb_result
            /\ pb_pc' = "resubmit"
       ELSE /\ pb_calls' = pb_calls
            /\ pb_result' = pb_result
            /\ pb_pc' = "final"
    /\ UNCHANGED <<pb_replace, pb_code, pb_dest_type, pb_job_state, pb_first_state,
                   pb_log>>

\* line 693: resubmit the request
PubResubmit ==
    /\ pb_pc = "resubmit"
    /\ UNCHANGED <<perfVars, inferVars, regVars>>
    /\ \E st \in JobStates, log \in PublishLogs :
          /\ pb_job_state' = st
          /\ pb_log' = log
    /\ pb_calls' = pb_calls \o SubmitCalls(pb_code, pb_dest_type)
    /\ pb_pc' = "final"
    /\ UNCHANGED <<pb_replace, pb_code, pb_dest_type, pb_first_state, pb_result>>

\* lines 695-724: raise for a failed or unknown state, else resolve the module
PubFinal ==
    /\ pb_pc = "final"
    /\ UNCHANGED <<perfVars, inferVars, regVars>>
    /\ LET final == FinalState(pb_job_state)
           url == ParseModuleUrl(LStrip(pb_log, SuccessChars))
       IN  CASE final = "failed" ->
                  /\ pb_calls' = Append(pb_calls, "request_link publishingLog")
                  /\ pb_result' = [type |-> "RuntimeError", what |-> "Failed to publish",
                                   log |-> pb_log]
             [] final = "unknown" ->
                  /\ pb_calls' = pb_calls
                  /\ pb_result' = [type |-> "RuntimeError", what |-> "unknown state",
                                   state |-> Lower(pb_job_state)]
             [] final = "completed" /\ url.type = "url" ->
                  /\ pb_calls' = pb_calls \o <<"request_link publishingLog", "get module">>
                  /\ pb_result' = [type |-> "return", value |-> "module",
                                   url |-> url.url]
             [] final = "completed" /\ url.type = "None" ->
                  /\ pb_calls' = Append(pb_calls, "request_link publishingLog")
                  /\ pb_result' = [type |-> "Exception",
                                   what |-> "Unable to retrieve module URL"]
             [] OTHER ->
                  /\ pb_calls' = Append(pb_calls, "request_link publishingLog")
                  /\ pb_result' = [type |-> url.type]
    /\ pb_pc' = "done"
    /\ UNCHANGED <<pb_replace, pb_code, pb_dest_type, pb_job_state, pb_first_state,
                   pb_log>>

PubNext ==
    \/ PubSubmit
    \/ PubCheck
    \/ PubResubmit
    \/ PubFinal

InitPublish == PubInit /\ PerfIdle /\ InferIdle /\ RegIdle

SpecPublish == InitPublish /\ [][PubNext]_vars


(***************************************************************************)
(* Target-level inference on its own                                       *)
(***************************************************************************)
ClassNames ==
    {N_LogisticRegression, N_LinearRegression, N_SVC, N_GradientBoostingClassifier,
     N_GradientBoostingRegressor, N_XGBClassifier, N_XGBRegressor,
     N_RandomForestClassifier, N_DecisionTreeClassifier, N_DecisionTreeRegressor,
     N_SGDRegressor, N_KMeans, N_LogisticRegressionCV, N_Ridge}

EstimatorTypes == {N_classifier, N_regressor, N_clusterer}

\* estimators and pipelines that end in one
InferEstimators ==
    [class : ClassNames, final_estimator : {MISSING},
     estimator_type : EstimatorTypes, params : {<<>>}, str : {N_Ridge}]
    \cup [class : {N_KMeans}, final_estimator : ClassNames,
          estimator_type : EstimatorTypes, params : {<<>>}, str : {N_Ridge}]

InferInit ==
    /\ in_pc = "model"
    /\ in_model \in InferEstimators
    /\ in_dict = NONE
    /\ in_level = MISSING

\* _sklearn_to_dict(model)
InferDescriptor ==
    /\ in_pc = "model"
    /\ in_dict' = _sklearn_to_dict(in_model)
    /\ in_pc' = "dict"
    /\ UNCHANGED <<in_model, in_level, perfVars, pubVars, regVars>>

\* lines 128-154 for a descriptor with the function and algorithm of the result
\* and no target level of its own
InferProjectLevel ==
    /\ in_pc = "dict"
    /\ in_level' = ProjectTargetLevel([function |-> in_dict.function,
                                       algorithm |-> in_dict.algorithm,
                                       targetLevel |-> MISSING])
    /\ in_pc' = "project"
    /\ UNCHANGED <<in_model, in_dict, perfVars, pubVars, regVars>>

InferNext ==
    \/ InferDescriptor
    \/ InferProjectLevel

InitInfer == InferInit /\ PerfIdle /\ PubIdle /\ RegIdle

SpecInfer == InitInfer /\ [][InferNext]_vars


(***************************************************************************)
(* register_model                                                          *)
(***************************************************************************)
Versions == {NONE, S_NEW, S_latest}

RegInit ==
    /\ rg_pc = "find_project"
    /\ rg_variant \in {"astore", "estimator", "dict", "other"}
    /\ rg_force \in BOOLEAN
    /\ rg_version \in Versions
    /\ rg_name = "mymodel"
    /\ rg_name0 = rg_name
    /\ rg_project = "proj"
    /\ rg_create_project = FALSE
    /\ rg_projects \in {{}, {"proj"}}
    /\ rg_models \in {{}, {"mymodel"}, {"dmcas_roc.json"}}
    /\ rg_files \in CallerFiles
    /\ rg_files0 = rg_files
    /\ rg_estimator \in (IF rg_variant = "estimator" THEN Estimators ELSE {ShortEstimator})
    /\ rg_model \in (CASE rg_variant = "dict" -> MappingDescriptors
                       [] rg_variant = "astore" -> AstoreProperties
                       [] OTHER -> {NoDescriptor})
    /\ rg_train \in (IF rg_variant = "estimator" THEN BOOLEAN ELSE {FALSE})
    /\ rg_valid \in (IF rg_variant = "estimator" THEN BOOLEAN ELSE {FALSE})
    /\ rg_test \in (IF rg_variant = "estimator" THEN BOOLEAN ELSE {FALSE})
    /\ rg_data \in (IF rg_variant = "estimator" /\ ~(rg_train \/ rg_valid \/ rg_test)
                    THEN BOOLEAN ELSE {FALSE})
    /\ rg_schema = "none"
    /\ rg_record_packages \in (IF rg_variant = "estimator" THEN BOOLEAN ELSE {FALSE})
    /\ rg_packages = NoPackages
    /\ rg_warned = FALSE
    /\ rg_calls = <<>>
    /\ rg_result = [type |-> "none"]

\* lines 360-385: look the project up; without it and without force, raise
RegFindProject ==
    /\ rg_pc = "find_project"
    /\ LET found == rg_project \in rg_projects
           create == NeedsProject(found, rg_force)
       IN  /\ rg_calls' = Append(rg_calls, [call |-> "get_project", arg |-> rg_project])
           /\ rg_create_project' = create
           /\ IF ~found /\ ~create
              THEN /\ rg_pc' = "done"
                   /\ rg_result' = [type |-> "ValueError", what |-> "project not found"]
              ELSE /\ rg_pc' = "repository"
                   /\ rg_result' = rg_result
    /\ UNCHANGED <<rg_variant, rg_force, rg_version, rg_name, rg_name0, rg_project,
                   rg_projects, rg_models, rg_files, rg_files0, rg_estimator,
                   rg_model, rg_train, rg_valid, rg_test, rg_data, rg_schema,
                   rg_record_packages, rg_packages, rg_warned>>
    /\ UNCHANGED <<perfVars, pubVars, inferVars>>

\* lines 387-409: find the repository
RegRepository ==
    /\ rg_pc = "repository"
    /\ rg_calls' = Append(rg_calls, [call |-> "get_repository", arg |-> "repository"])
    /\ \E outcome \in {"found", "None", "403", "500"} :
          CASE outcome = "found" ->
                 rg_pc' = "dispatch" /\ rg_result' = rg_result
            [] outcome = "None" ->
                 /\ rg_pc' = "done"
                 /\ rg_result' = [type |-> "ValueError", what |-> "repository not found"]
            [] outcome = "403" ->
                 rg_pc' = "done" /\ rg_result' = [type |-> "AuthorizationError"]
            [] OTHER ->
                 rg_pc' = "done" /\ rg_result' = [type |-> "HTTPError"]
    /\ UNCHANGED <<rg_variant, rg_force, rg_version, rg_name, rg_name0, rg_project,
                   rg_create_project, rg_projects, rg_models, rg_files, rg_files0,
                   rg_estimator, rg_model, rg_train, rg_valid, rg_test, rg_data,
                   rg_schema, rg_record_packages, rg_packages, rg_warned>>
    /\ UNCHANGED <<perfVars, pubVars, inferVars>>

\* lines 411-448: an ASTORE is packaged and imported; with create_project the
\* project is made from the metadata of the package first
RegAstore ==
    /\ rg_pc = "dispatch"
    /\ rg_variant = "astore"
    /\ \E outvar \in {<<>>, <<"P_y">>} :
       \E created \in CreatedProjects(ProjectProperties(rg_model, outvar)) :
          rg_calls' = rg_calls
              \o (IF rg_create_project
                  THEN CreateProjectCalls(rg_project, rg_model, outvar, created)
                  ELSE <<>>)
              \o <<[call |-> "import_model_from_zip",
                    arg |-> [name |-> rg_name, project |-> rg_project,
                             version |-> Get(rg_version, S_new)]]>>
    /\ rg_pc' = "done"
    /\ rg_result' = [type |-> "return", value |-> "imported model"]
    /\ UNCHANGED <<rg_variant, rg_force, rg_version, rg_name, rg_name0, rg_project,
                   rg_create_project, rg_projects, rg_models, rg_files, rg_files0,
                   rg_estimator, rg_model, rg_train, rg_valid, rg_test, rg_data,
                   rg_schema, rg_record_packages, rg_packages, rg_warned>>
    /\ UNCHANGED <<perfVars, pubVars, inferVars>>

\* lines 467-476: the dataset set_variables is given: the first of train, test,
\* valid that is not None, else data
SchemaSource(train, test, valid) ==
    IF train THEN "train" ELSE IF test THEN "test" ELSE IF valid THEN "valid" ELSE "data"

\* lines 457-479: pickle the estimator and derive its descriptor
RegPickle ==
    /\ rg_pc = "dispatch"
    /\ rg_variant = "estimator"
    /\ rg_files' = Append(rg_files, [name |-> "model.pkl", role |-> "Python Pickle",
                                     file |-> <<"p">>])
    /\ rg_schema' = SchemaSource(rg_train, rg_test, rg_valid)
    /\ rg_model' = ModelInfoToDict(rg_estimator, rg_name)
    /\ rg_pc' = "stats"
    /\ UNCHANGED <<rg_variant, rg_force, rg_version, rg_name, rg_name0, rg_project,
                   rg_create_project, rg_projects, rg_models, rg_files0,
                   rg_estimator, rg_train, rg_valid, rg_test, rg_data,
                   rg_record_packages, rg_packages, rg_warned, rg_calls, rg_result>>
    /\ UNCHANGED <<perfVars, pubVars, inferVars>>

StatFiles == <<"dmcas_lift.json", "dmcas_fitstat.json", "dmcas_roc.json">>

\* lines 483-498: the statistics files appended to files
RECURSIVE WithStats(_, _)
WithStats(files, i) ==
    IF i > Len(StatFiles) THEN files
    ELSE WithStats(IF HasFile(files, StatFiles[i]) THEN files
                   ELSE Append(files, [name |-> StatFiles[i], role |-> "none",
                                       file |-> <<"s">>]),
                   i + 1)

\* lines 481-498: with a dataset, compute the statistics; the loop variable is
\* called name and so rebinds the local name
RegStats ==
    /\ rg_pc = "stats"
    /\ IF rg_train \/ rg_test \/ rg_valid
       THEN /\ rg_files' = WithStats(rg_files, 1)
            /\ rg_name' = StatFiles[Len(StatFiles)]
       ELSE UNCHANGED <<rg_files, rg_name>>
    /\ rg_pc' = "packages"
    /\ UNCHANGED <<rg_variant, rg_force, rg_version, rg_name0, rg_project,
                   rg_create_project, rg_projects, rg_models, rg_files0,
                   rg_estimator, rg_model, rg_train, rg_valid, rg_test, rg_data,
                   rg_schema, rg_record_packages, rg_packages, rg_warned, rg_calls,
                   rg_result>>
    /\ UNCHANGED <<perfVars, pubVars, inferVars>>

\* lines 500-517: record the installed packages
RegPackages ==
    /\ rg_pc = "packages"
    /\ IF rg_record_packages /\ ~HasFile(rg_files, "requirements.txt")
       THEN \E packages \in PackageLists :
              /\ rg_packages' = packages
              /\ IF packages = NoPackages
                 THEN /\ UNCHANGED <<rg_model, rg_files, rg_result>>
                      /\ rg_pc' = "scorecode"
                 ELSE IF UnpackFails(packages)
                 THEN /\ UNCHANGED <<rg_model, rg_files>>
                      /\ rg_pc' = "done"
                      /\ rg_result' = [type |-> "ValueError",
                                       what |-> "too many values to unpack"]
                 ELSE /\ rg_model' = [rg_model EXCEPT !.properties =
                                         @ \o EnvProperties(packages)]
                      /\ rg_files' = Append(rg_files, RequirementsFile(packages))
                      /\ rg_pc' = "scorecode"
                      /\ rg_result' = rg_result
       ELSE /\ UNCHANGED <<rg_packages, rg_model, rg_files, rg_result>>
            /\ rg_pc' = "scorecode"
    /\ UNCHANGED <<rg_variant, rg_force, rg_version, rg_name, rg_name0, rg_project,
                   rg_create_project, rg_projects, rg_models, rg_files0,
                   rg_estimator, rg_train, rg_valid, rg_test, rg_data, rg_schema,
                   rg_record_packages, rg_warned, rg_calls>>
    /\ UNCHANGED <<perfVars, pubVars, inferVars>>

ScoreCodeFiles ==
    <<[name |-> "dmcas_packagescorecode.sas", role |-> "Score Code", file |-> <<"c">>],
      [name |-> "dmcas_epscorecode.sas", role |-> "score", file |-> <<"c">>],
      [name |-> "python_wrapper.py", role |-> "none", file |-> <<"c">>]>>

\* lines 519-565: generate the score code.  made is the number of score_code()
\* calls that return before one raises ValueError: -1 when from_model_info
\* raises, 3 when none does.  Each file is appended as soon as its code is made.
RegScoreCode ==
    /\ rg_pc = "scorecode"
    /\ \E made \in -1..Len(ScoreCodeFiles) :
          /\ rg_files' = rg_files \o SubSeq(ScoreCodeFiles, 1, made)
          /\ IF made = Len(ScoreCodeFiles)
             THEN /\ rg_model' = [rg_model EXCEPT !.inputVariables = <<"x">>,
                                                  !.outputVariables = <<"P_y">>]
                  /\ rg_warned' = FALSE
             ELSE /\ rg_model' = rg_model
                  /\ rg_warned' = TRUE
    /\ rg_pc' = "project"
    /\ UNCHANGED <<rg_variant, rg_force, rg_version, rg_name, rg_name0, rg_project,
                   rg_create_project, rg_projects, rg_models, rg_files0,
                   rg_estimator, rg_train, rg_valid, rg_test, rg_data, rg_schema,
                   rg_record_packages, rg_packages, rg_calls, rg_result>>
    /\ UNCHANGED <<perfVars, pubVars, inferVars>>

\* lines 566-571: any other model is a mapping, or TypeError
RegMapping ==
    /\ rg_pc = "dispatch"
    /\ rg_variant \in {"dict", "other"}
    /\ IF rg_variant = "dict"
       THEN rg_pc' = "project" /\ rg_result' = rg_result
       ELSE rg_pc' = "done" /\ rg_result' = [type |-> "TypeError"]
    /\ UNCHANGED <<rg_variant, rg_force, rg_version, rg_name, rg_name0, rg_project,
                   rg_create_project, rg_projects, rg_models, rg_files, rg_files0,
                   rg_estimator, rg_model, rg_train, rg_valid, rg_test, rg_data,
                   rg_schema, rg_record_packages, rg_packages, rg_warned, rg_calls>>
    /\ UNCHANGED <<perfVars, pubVars, inferVars>>

\* lines 573-574: create the project
RegCreateProject ==
    /\ rg_pc = "project"
    /\ IF rg_create_project
       THEN \E created \in CreatedProjects(ProjectProperties(rg_model, <<>>)) :
              rg_calls' = rg_calls \o CreateProjectCalls(rg_project, rg_model, <<>>, created)
       ELSE rg_calls' = rg_calls
    /\ rg_pc' = "version"
    /\ UNCHANGED <<rg_variant, rg_force, rg_version, rg_name, rg_name0, rg_project,
                   rg_create_project, rg_projects, rg_models, rg_files, rg_files0,
                   rg_estimator, rg_model, rg_train, rg_valid, rg_test, rg_data,
                   rg_schema, rg_record_packages, rg_packages, rg_warned, rg_result>>
    /\ UNCHANGED <<perfVars, pubVars, inferVars>>

\* line 577: str(version).lower() != 'new', after version = version or 'new'
ReplacesVersion(version) ==
    Lower(IF version = NONE THEN S_new ELSE version) # S_new

\* what a call that creates a model or a version may do: return a model,
\* return something that is no RestObj, or raise
CreateOutcomes == {"model", "no RestObj", "HTTPError"}

\* lines 576-595: a new version of an existing model, or a new model; what is
\* returned must be a RestObj
RegVersion ==
    /\ rg_pc = "version"
    /\ \E outcome \in CreateOutcomes :
          IF ReplacesVersion(rg_version)
          THEN IF rg_name \notin rg_models
               THEN /\ rg_calls' = Append(rg_calls, [call |-> "get_model", arg |-> rg_name])
                    /\ rg_pc' = "done"
                    /\ rg_result' = [type |-> "ValueError", what |-> "model not found"]
               ELSE IF outcome = "HTTPError"
               THEN /\ rg_calls' = rg_calls \o
                           <<[call |-> "get_model", arg |-> rg_name],
                             [call |-> "create_model_version", arg |-> rg_name]>>
                    /\ rg_pc' = "done"
                    /\ rg_result' = [type |-> "HTTPError", what |-> "create_model_version"]
               ELSE /\ rg_calls' = rg_calls \o
                           <<[call |-> "get_model", arg |-> rg_name],
                             [call |-> "create_model_version", arg |-> rg_name],
                             [call |-> "delete_model_contents", arg |-> rg_name]>>
                    /\ IF outcome = "model"
                       THEN rg_pc' = "upload" /\ rg_result' = rg_result
                       ELSE rg_pc' = "done" /\ rg_result' = [type |-> "TypeError"]
          ELSE /\ rg_calls' = Append(rg_calls, [call |-> "create_model",
                                                arg |-> [model |-> rg_model,
                                                         project |-> rg_project]])
               /\ CASE outcome = "model" ->
                         rg_pc' = "upload" /\ rg_result' = rg_result
                    [] outcome = "no RestObj" ->
                         rg_pc' = "done" /\ rg_result' = [type |-> "TypeError"]
                    [] OTHER ->
                         /\ rg_pc' = "done"
                         /\ rg_result' = [type |-> "HTTPError", what |-> "create_model"]
    /\ UNCHANGED <<rg_variant, rg_force, rg_version, rg_name, rg_name0, rg_project,
                   rg_create_project, rg_projects, rg_models, rg_files, rg_files0,
                   rg_estimator, rg_model, rg_train, rg_valid, rg_test, rg_data,
                   rg_schema, rg_record_packages, rg_packages, rg_warned>>
    /\ UNCHANGED <<perfVars, pubVars, inferVars>>

\* a variant of UploadCalls: the manifest is walked from its end
UploadCallsReversed(files) ==
    [i \in 1..Len(files) |->
        [call |-> "add_model_content", arg |-> files[Len(files) + 1 - i].name]]

\* lines 598-602: one add_model_content per entry of files, in order
UploadCalls(files) ==
    [i \in 1..Len(files) |-> [call |-> "add_model_content", arg |-> files[i].name]]

\* lines 597-604: upload the manifest in order and return the model; an
\* add_model_content that raises ends the loop
RegUpload ==
    /\ rg_pc = "upload"
    /\ \E issued \in 1..(Len(rg_files) + 1) :
          IF issued > Len(rg_files)
          THEN /\ rg_calls' = rg_calls \o UploadCalls(rg_files)
               /\ rg_result' = [type |-> "return", value |-> "model"]
          ELSE /\ rg_calls' = rg_calls \o SubSeq(UploadCalls(rg_files), 1, issued)
               /\ rg_result' = [type |-> "HTTPError", what |-> "add_model_content"]
    /\ rg_pc' = "done"
    /\ UNCHANGED <<rg_variant, rg_force, rg_version, rg_name, rg_name0, rg_project,
                   rg_create_project, rg_projects, rg_models, rg_files, rg_files0,
                   rg_estimator, rg_model, rg_train, rg_valid, rg_test, rg_data,
                   rg_schema, rg_record_packages, rg_packages, rg_warned>>
    /\ UNCHANGED <<perfVars, pubVars, inferVars>>

RegNext ==
    \/ RegFindProject
    \/ RegRepository
    \/ RegAstore
    \/ RegPickle
    \/ RegStats
    \/ RegPackages
    \/ RegScoreCode
    \/ RegMapping
    \/ RegCreateProject
    \/ RegVersion
    \/ RegUpload

InitRegister == RegInit /\ PerfIdle /\ PubIdle /\ InferIdle

SpecRegister == InitRegister /\ [][RegNext]_vars


(***************************************************************************)
(* Claims about update_model_performance                                   *)
(***************************************************************************)

\* C1: once a call of update_model_performance has reached the certificate
\* override, SSLREQCERT after the call has ended (by return or by an exception
\* of the session, the table listing or the upload) equals its value before the
\* call, "unset" included.
C1_EnvRestored ==
    (pf_pc = "done" /\ orig_sslreqcert # "unbound") => environ = environ0

\* the name is {prefix}_<digits>_<label>_{id}, as a whole
NameOfModel(s, prefix, id) ==
    /\ MatchAt(s, prefix, id, 1)
    /\ \E j \in 1..Len(s) :
          /\ j > DigitsEnd(s, Len(prefix) + 2) + 1
          /\ s[j] = "_"
          /\ Lower(SubSeq(s, j + 1, Len(s))) = Lower(id)

\* the sequence number of a name of that form
SeqOfName(s, prefix) ==
    ToInt(SubSeq(s, Len(prefix) + 2, DigitsEnd(s, Len(prefix) + 2)))

\* C7: the sequence number of the new table is 1 when no table of the caslib is
\* named {prefix}_<digits>_<label>_{modelId} for this model, and otherwise one
\* more than the largest sequence number among those tables; tables of other
\* models or prefixes do not count.
C7_SequenceNumber ==
    next_seq # 0 =>
        LET mine == {t \in pf_tables \ NoTableInfo :
                        NameOfModel(t, pf_prefix, pf_model_id)}
        IN  next_seq = IF mine = {} THEN 1
                       ELSE Max({SeqOfName(t, pf_prefix) : t \in mine}) + 1

(***************************************************************************)
(* Claims about publish_model                                              *)
(***************************************************************************)
Count(calls, c) == Cardinality({i \in 1..Len(calls) : calls[i] = c})

\* the positions of the calls c in the call log
Positions(calls, c) == {i \in 1..Len(calls) : calls[i] = c}

\* the calls that submit a publishing request
PublishCalls == {"mm.publish_model", "mm.publish_model reload_model_table",
                 "mp.publish_model"}

FirstFailedOnMAS ==
    /\ pb_first_state # NONE
    /\ Lower(pb_first_state) = S_failed
    /\ pb_dest_type = "microAnalyticService"

\* C4: when the first publish job ends 'failed' on a microanalytic-service
\* destination: with replace, delete_module is called once, before exactly one
\* further submission, and there is never a third; without replace, delete_module
\* is never called, nothing is resubmitted and RuntimeError carries the log.
C4_RetryOnce ==
    FirstFailedOnMAS =>
        LET deletes == Positions(pb_calls, "delete_module")
            submits == {i \in 1..Len(pb_calls) : pb_calls[i] \in PublishCalls}
        IN  IF pb_replace
            THEN /\ Cardinality(deletes) <= 1
                 /\ Cardinality(submits) <= 2
                 /\ Cardinality(submits) = 2 =>
                        /\ Cardinality(deletes) = 1
                        /\ \A d \in deletes : MinOf(submits) < d /\ d < Max(submits)
                 /\ pb_pc = "done" =>
                        Cardinality(deletes) = 1 /\ Cardinality(submits) = 2
            ELSE /\ deletes = {}
                 /\ Cardinality(submits) = 1
                 /\ pb_pc = "done" =>
                        pb_result = [type |-> "RuntimeError", what |-> "Failed to publish",
                                     log |-> pb_log]

\* a failed MAS job was retried once, after the module was deleted
C4_Witness ==
    /\ pb_pc = "done"
    /\ FirstFailedOnMAS
    /\ pb_replace
    /\ Count(pb_calls, "delete_module") = 1
    /\ Count(pb_calls, "_monitor_job") = 2
    /\ Lower(pb_job_state) = S_failed

\* C5: publish_model returns a value only when the final job state, compared
\* case-insensitively, is 'completed'; 'failed' raises RuntimeError, any other
\* state raises the unknown-state RuntimeError, and a completed job on a
\* destination other than MAS returns the job's 'self' link without fetching the
\* publishing log.
C5_ReturnOnlyCompleted ==
    pb_pc = "done" =>
        LET state == Lower(pb_job_state)
        IN  /\ pb_result.type = "return" => state = S_completed
            /\ state = S_failed =>
                   pb_result = [type |-> "RuntimeError", what |-> "Failed to publish",
                                log |-> pb_log]
            /\ state \notin {S_completed, S_failed} =>
                   pb_result = [type |-> "RuntimeError", what |-> "unknown state",
                                state |-> state]
            /\ (state = S_completed /\ pb_dest_type # "microAnalyticService") =>
                   /\ pb_result = [type |-> "return", value |-> "self link"]
                   /\ Count(pb_calls, "request_link publishingLog") = 0

\* a job in state 'Completed' on a CAS destination returned the self link
C5_Witness ==
    /\ pb_pc = "done"
    /\ pb_job_state = S_Completed
    /\ pb_dest_type = "cas"
    /\ pb_result = [type |-> "return", value |-> "self link"]

(***************************************************************************)
(* Claims about target-level inference                                     *)
(***************************************************************************)

\* the rule of the claim: 'Binary' for classification with 'logistic' in the
\* algorithm, 'Interval' for prediction with 'regression' or 'regressor' in the
\* algorithm or the estimator name, unset otherwise
ClaimedLevel(function, algorithm, estimator) ==
    IF function = S_classification /\ Contains(S_logistic, Lower(algorithm))
    THEN S_Binary
    ELSE IF /\ function = S_prediction
            /\ \E w \in {S_regression, N_regressor} :
                  Contains(w, Lower(algorithm)) \/ Contains(w, Lower(estimator))
    THEN S_Interval
    ELSE NONE

\* C8 as stated: _sklearn_to_dict and _create_project (for a descriptor without a
\* target level) both give the level of that rule, hence the same level.
C8_SameLevelInBothPlaces ==
    LET want == ClaimedLevel(in_dict.function, in_dict.algorithm,
                             EstimatorName(in_model))
    IN  /\ in_pc \in {"dict", "project"} => in_dict.targetLevel = want
        /\ in_pc = "project" => in_level = want /\ in_level = in_dict.targetLevel

\* C8 amended: _sklearn_to_dict gives 'Binary' exactly for classification with
\* 'logistic' in the algorithm, 'Interval' exactly for prediction with 'regressor'
\* in the estimator name or 'regression' in the algorithm, unset otherwise;
\* _create_project sees no estimator name and gives 'Interval' exactly for
\* prediction with 'regression' in the algorithm, so the two agree except for a
\* prediction estimator whose algorithm lacks 'regression'.
C8_LevelPerPlace ==
    LET function == in_dict.function
        algorithm == Lower(in_dict.algorithm)
        estimator == Lower(EstimatorName(in_model))
        binary == function = S_classification /\ Contains(S_logistic, algorithm)
        byAlgorithm == function = S_prediction /\ Contains(S_regression, algorithm)
        byName == function = S_prediction /\ Contains(N_regressor, estimator)
    IN  /\ in_pc \in {"dict", "project"} =>
               in_dict.targetLevel = IF binary THEN S_Binary
                                     ELSE IF byAlgorithm \/ byName THEN S_Interval
                                     ELSE NONE
        /\ in_pc = "project" =>
               /\ in_level = IF binary THEN S_Binary
                             ELSE IF byAlgorithm THEN S_Interval
                             ELSE NONE
               /\ (in_level # in_dict.targetLevel) <=> (byName /\ ~byAlgorithm)

\* a decision-tree regressor is 'Interval' for _sklearn_to_dict and unset for
\* _create_project
C8_Witness ==
    /\ in_pc = "project"
    /\ in_model.class = N_DecisionTreeRegressor
    /\ in_model.final_estimator = MISSING
    /\ in_model.estimator_type = N_regressor
    /\ in_dict.targetLevel = S_Interval
    /\ in_level = NONE

(***************************************************************************)
(* Claims about register_model                                             *)
(***************************************************************************)
MutatingCalls ==
    {"create_project", "update_project", "create_model", "create_model_version",
     "delete_model_contents", "import_model_from_zip", "add_model_content"}

\* C2: register_model with a version other than 'new', for a model name the
\* repository does not hold, raises ValueError and issues no mutating remote
\* call, whatever the model variant and force.  (A call that fails earlier for
\* another reason must not have mutated anything either.)
C2_NoMutationBeforeValueError ==
    (rg_pc = "done" /\ ReplacesVersion(rg_version) /\ rg_name0 \notin rg_models) =>
        /\ rg_result.type # "return"
        /\ \A i \in 1..Len(rg_calls) : rg_calls[i].call \notin MutatingCalls
        /\ (\E i \in 1..Len(rg_calls) : rg_calls[i].call = "get_model") =>
               rg_result = [type |-> "ValueError", what |-> "model not found"]

\* C3: with force=False and a project get_project does not find, register_model
\* raises ValueError before any repository lookup, model creation or
\* add_model_content call, for every model variant and files list.
C3_NoProjectNoForce ==
    (rg_pc \notin {"idle", "find_project"} /\ rg_force = FALSE
         /\ rg_project \notin rg_projects) =>
        /\ rg_pc = "done"
        /\ rg_result = [type |-> "ValueError", what |-> "project not found"]
        /\ CallNames(rg_calls) = <<"get_project">>
        /\ rg_files = rg_files0

\* an estimator with a file was refused for the missing project
C3_Witness ==
    /\ rg_pc = "done"
    /\ rg_force = FALSE
    /\ rg_project \notin rg_projects
    /\ rg_variant = "estimator"
    /\ rg_files0 # <<>>
    /\ rg_result = [type |-> "ValueError", what |-> "project not found"]

\* the package string does not hold exactly one '=='
NotNameVersion(q) == Len(Split(q, S_eqeq)) # 2

\* C6: every installed package without exactly one '==' is absent from the env_
\* properties and from the generated requirements.txt, and registration still
\* completes.
C6_PackagesFiltered ==
    rg_packages # NoPackages =>
        /\ \A i \in 1..Len(rg_packages) :
              NotNameVersion(rg_packages[i]) =>
                  /\ \A j \in 1..Len(rg_files) :
                        rg_files[j].name = "requirements.txt" =>
                            \A k \in 1..Len(Split(rg_files[j].file, S_newline)) :
                                Split(rg_files[j].file, S_newline)[k] # rg_packages[i]
                  /\ \A j \in 1..Len(rg_model.properties) :
                        rg_model.properties[j].name #
                            Take(S_env_ \o Split(rg_packages[i], S_eqeq)[1], 60)
        /\ rg_result # [type |-> "ValueError", what |-> "too many values to unpack"]

LogisticMappingRegistered ==
    /\ rg_pc = "done"
    /\ rg_result.type = "return"
    /\ rg_variant = "dict"
    /\ rg_model.function = S_classification
    /\ rg_model.algorithm = A_logistic_regression
    /\ rg_force = TRUE
    /\ ~ReplacesVersion(rg_version)
    /\ rg_project \notin rg_projects

\* the project is created 'Binary', the model is created after it and under it,
\* and the files uploaded are those of the caller, in order
BinaryProjectThenModel ==
    LET names == CallNames(rg_calls)
        projects == Positions(names, "create_project")
        models == Positions(names, "create_model")
        uploads == SelectSeq(rg_calls, LAMBDA c : c.call = "add_model_content")
    IN  /\ Cardinality(projects) = 1
        /\ Cardinality(models) = 1
        /\ \A i \in projects :
              /\ rg_calls[i].arg.name = rg_project
              /\ rg_calls[i].arg.props.targetLevel = S_Binary
        /\ \A i \in projects : \A j \in models :
              i < j /\ rg_calls[j].arg.project = rg_calls[i].arg.name
        /\ [i \in 1..Len(uploads) |-> uploads[i].arg] =
               [i \in 1..Len(rg_files0) |-> rg_files0[i].name]

\* C10 as stated: every such registration creates the project with targetLevel
\* 'Binary', then the model under it, and uploads exactly the caller's files.
C10_BinaryProject == LogisticMappingRegistered => BinaryProjectThenModel

\* C10 amended: the same, for a descriptor that carries no target level of its
\* own (absent or None); a target level the descriptor gives is kept.
C10_BinaryProjectWithoutLevel ==
    (LogisticMappingRegistered /\ rg_model.targetLevel \in {MISSING, NONE}) =>
        BinaryProjectThenModel

\* such a descriptor with targetLevel None and one file of the caller was
\* registered
C10_Witness ==
    /\ LogisticMappingRegistered
    /\ rg_model.targetLevel = NONE
    /\ rg_files0 # <<>>
    /\ BinaryProjectThenModel

\* the names of the score-code files
ScoreCodeNames == {ScoreCodeFiles[i].name : i \in 1..Len(ScoreCodeFiles)}

\* C11: when score-code generation fails for an estimator (from_model_info or
\* any of the three score_code calls raises ValueError), register_model warns
\* and goes on: the manifest holds none of the score-code files, the descriptor
\* has no input or output variables from the generator, and a registration that
\* returns has uploaded the pickle file and no score-code file.
C11_DegradedWithoutScoreCode ==
    rg_warned =>
        /\ rg_pc \in {"project", "version", "upload", "done"}
        /\ \A i \in 1..Len(rg_files) : rg_files[i].name \notin ScoreCodeNames
        /\ rg_model.inputVariables = MISSING
        /\ rg_model.outputVariables = MISSING
        /\ (rg_pc = "done" /\ rg_result.type = "return") =>
              /\ \E i \in 1..Len(rg_calls) :
                    /\ rg_calls[i].call = "add_model_content"
                    /\ rg_calls[i].arg = "model.pkl"
              /\ \A i \in 1..Len(rg_calls) :
                    rg_calls[i].call = "add_model_content" =>
                        rg_calls[i].arg \notin ScoreCodeNames

\* a field of the project as the claim reads it: unset when absent or None
FieldOf(v) == IF v \in {MISSING, NONE} THEN S_empty ELSE v

\* one of the preconditions on the project and its performance definition fails
PreconditionFails ==
    LET function == Lower(FieldOf(pf_project.function))
        level == Lower(FieldOf(pf_project.targetLevel))
    IN  \/ function \notin {S_prediction, S_classification}
        \/ level \notin {S_interval, S_binary}
        \/ function = S_prediction /\ FieldOf(pf_project.predictionVariable) = S_empty
        \/ /\ function = S_classification
           /\ FieldOf(pf_project.eventProbabilityVariable) = S_empty
        \/ \A i \in 1..Len(pf_defs) : pf_defs[i] # pf_project.id

PreconditionErrors ==
    {"ValueError: function", "ValueError: target level",
     "ValueError: prediction variable", "ValueError: event probability variable",
     "ValueError: performance definition"}

\* C12: when a precondition of update_model_performance fails (function, target
\* level, prediction variable, event-probability variable, performance
\* definition), the call raises ValueError; it opens no CAS session, uploads no
\* table, leaves the certificate setting alone and executes no performance
\* definition.
C12_PreconditionFailure ==
    (pf_pc \notin {"idle", "validate"} /\ pf_model_found /\ PreconditionFails) =>
        /\ pf_pc = "done"
        /\ pf_result \in PreconditionErrors
        /\ \A i \in 1..Len(pf_calls) :
              pf_calls[i] \notin {"swat.CAS", "tableinfo", "upload",
                                  "execute_performance_definition"}
        /\ environ = environ0
        /\ orig_sslreqcert = "unbound"

\* the URL the claimed order of resolution yields for a log: the JSON 'module'
\* link, then the 'rel=module, href=' text, then the 'Rel: module URI:' text;
\* <<>> when none of the three gives one
ClaimedModuleUrl(log) ==
    LET msg == LStrip(log, SuccessChars)
        details == JsonLoads(msg)
        link == IF details = <<>> THEN <<>> ELSE get_link(details[1], S_module)
        older == SearchGroup(msg, S_rel_href, S_comma)
        newer == SearchGroup(msg, S_Rel_URI, S_MediaType)
    IN  IF link # <<>> THEN <<link[1].href>>
        ELSE IF older # <<>> THEN older
        ELSE newer

\* C13: after a completed MAS publish job the module URL is the first of the
\* JSON 'module' link, the 'rel=module, href=...' text and the 'Rel: module URI:
\* ... MediaType' text that the log gives, and the module is requested from it;
\* when none gives a URL (a JSON log without a 'module' link included),
\* publish_model fails with 'Unable to retrieve module URL' and requests no
\* module.
C13_ModuleUrlResolution ==
    (/\ pb_pc = "done"
     /\ Lower(pb_job_state) = S_completed
     /\ pb_dest_type = "microAnalyticService") =>
        LET u == ClaimedModuleUrl(pb_log)
        IN  IF u # <<>>
            THEN /\ pb_result = [type |-> "return", value |-> "module", url |-> u[1]]
                 /\ Count(pb_calls, "get module") = 1
            ELSE /\ pb_result = [type |-> "Exception",
                                 what |-> "Unable to retrieve module URL"]
                 /\ Count(pb_calls, "get module") = 0

\* C14: with a version other than 'new', get_model and create_model_version are
\* called with the model name the caller passed, whatever the model variant,
\* the datasets and the files; when that model exists, create_model is never
\* called and delete_model_contents comes before every add_model_content.
C14_VersionOfCallersName ==
    ReplacesVersion(rg_version) =>
        /\ \A i \in 1..Len(rg_calls) :
              rg_calls[i].call \in {"get_model", "create_model_version"} =>
                  rg_calls[i].arg = rg_name0
        /\ rg_name0 \in rg_models =>
              LET names == CallNames(rg_calls)
              IN  /\ Positions(names, "create_model") = {}
                  /\ \A a \in Positions(names, "add_model_content") :
                        \E d \in Positions(names, "delete_model_contents") : d < a
                  /\ (rg_pc = "done" /\ Positions(names, "get_model") # {}) =>
                        rg_result.type # "ValueError"

\* the dataset the claimed priority order train, valid, test picks
ClaimedSchemaSource(train, valid, test) ==
    IF train THEN "train" ELSE IF valid THEN "valid" ELSE IF test THEN "test" ELSE "data"

\* C15: for an estimator the variable schema is taken from the first supplied
\* dataset in the order train, valid, test, and from the example data only
\* when none of the three is supplied.
C15_SchemaPriority ==
    rg_schema # "none" => rg_schema = ClaimedSchemaSource(rg_train, rg_valid, rg_test)

\* the two variables of a project are those requested
CarriesRequested(project, props) ==
    /\ project.predictionVariable = props.predictionVariable
    /\ project.eventProbabilityVariable = props.eventProbabilityVariable

\* _create_project has run to its end
ProjectStepDone ==
    /\ rg_create_project
    /\ \/ rg_pc \in {"version", "upload"}
       \/ /\ rg_pc = "done"
          /\ \E i \in 1..Len(rg_calls) :
                rg_calls[i].call \in {"import_model_from_zip", "get_model", "create_model"}

Uploaded ==
    LET adds == SelectSeq(rg_calls, LAMBDA c : c.call = "add_model_content")
    IN  [i \in 1..Len(adds) |-> adds[i].arg]

\* C17: on the estimator and mapping path no add_model_content is issued before
\* create_model or create_model_version has returned a model; then the entries
\* of the manifest, the caller's files first and the generated ones after them
\* in the order they were appended, are uploaded once each in manifest order;
\* when the creation of the model raises, nothing is uploaded.
C17_UploadInManifestOrder ==
    rg_variant \in {"estimator", "dict"} =>
        LET names == CallNames(rg_calls)
            creates == Positions(names, "create_model")
                           \cup Positions(names, "create_model_version")
        IN  /\ \A a \in Positions(names, "add_model_content") :
                  \E c \in creates : c < a
            /\ rg_pc # "done" => Uploaded = <<>>
            /\ Len(rg_files) >= Len(rg_files0)
            /\ SubSeq(rg_files, 1, Len(rg_files0)) = rg_files0
            /\ Len(Uploaded) <= Len(rg_files)
            /\ \A i \in 1..Len(Uploaded) : Uploaded[i] = rg_files[i].name
            /\ (rg_pc = "done" /\ rg_result.type = "return") =>
                  Len(Uploaded) = Len(rg_files)
            /\ (rg_pc = "done" /\ rg_result.type \in {"HTTPError", "TypeError"}
                    /\ rg_result # [type |-> "HTTPError", what |-> "add_model_content"]) =>
                  Uploaded = <<>>

\* an estimator with a file of the caller was registered: the caller's file, the
\* pickle file and the generated files were uploaded in that order
C17_Witness ==
    /\ rg_pc = "done"
    /\ rg_result.type = "return"
    /\ rg_variant = "estimator"
    /\ rg_files0 # <<>>
    /\ Len(rg_files) >= Len(rg_files0) + 4
    /\ Uploaded = [i \in 1..Len(rg_files) |-> rg_files[i].name]
    /\ Uploaded[1] = rg_files0[1].name
    /\ Uploaded[Len(rg_files0) + 1] = "model.pkl"

====
